---- MODULE Spec2Model ----
(***************************************************************************)
(* The LLM Council backend (backend/main.py): the HTTP routes, their       *)
(* authentication, the conversation store they read and write, and the     *)
(* two pipeline drivers: send_message (batch) and send_message_stream      *)
(* (streaming, the generator generate()).                                  *)
(*                                                                         *)
(* backend/storage.py and backend/council.py are imported by main.py; the  *)
(* definitions that stand for them follow the design document and are      *)
(* marked as such.                                                         *)
(***************************************************************************)
EXTENDS Integers, Sequences, FiniteSets, TLC

\* Number of message requests (batch or streaming) the model follows.
MaxRuns == 2
\* Number of conversation ids uuid4 hands out.
MaxConvs == 1

\* Number of batch requests the batch-only specification follows.
MaxBatchRuns == 3

ConvIds == 1..MaxConvs
RunIds == 1..MaxRuns
BatchRunIds == 1..MaxBatchRuns

\* Number of configured council members.
NumMembers == 2

\* The configured council, in configuration order.
ModelNames == <<"m1", "m2", "m3">>
CouncilMembers == SubSeq(ModelNames, 1, NumMembers)
Members == 1..Len(CouncilMembers)

\* The label alphabet of the anonymizer.
Labels == <<"A", "B", "C", "D">>

AUTH_USERNAME == "admin"
\* The values AUTH_PASSWORD can have in the environment ("" is unset).
PasswordSettings == {"", "secret"}

DefaultTitle == "New Conversation"
GeneratedTitle == "Generated Title"

VARIABLES
    authPassword,   \* AUTH_PASSWORD, read once at import
    store,          \* the Conversation Store: id -> conversation
    nextId,         \* the next id uuid4 gives to create_conversation
    resp,           \* status of the last response of a conversation CRUD route
    run,            \* per message request: position and local variables
    fan             \* one council run seen from inside: the two fan-outs

vars == <<authPassword, store, nextId, resp, run, fan>>

\* The message requests the specification follows.
Runs == DOMAIN run

----------------------------------------------------------------------------
\* Sequences

IsPrefix(s, t) == Len(s) <= Len(t) /\ \A i \in 1..Len(s) : s[i] = t[i]

Last(s) == s[Len(s)]

Perms(s) ==
    {p \in [1..Len(s) -> {s[i] : i \in 1..Len(s)}] :
        \A i, j \in 1..Len(s) : i # j => p[i] # p[j]}

----------------------------------------------------------------------------
\* Authentication

\* The credentials a request can carry: no Authorization header at all, or
\* a Basic header with a username and a password.
NoHeader == [present |-> FALSE, username |-> "", password |-> ""]
Creds ==
    {NoHeader} \cup
    [present : {TRUE}, username : {AUTH_USERNAME, "guest"}, password : {"secret", "wrong"}]

Unauthorized == [status |-> 401, user |-> ""]

\* security = HTTPBasic(): the dependency verify_credentials depends on. It
\* is resolved first and answers 401 itself when the request has no Basic
\* Authorization header (auto_error is on by default).
HTTPBasic(creds) == creds.present

verify_credentials(creds) ==
    IF ~HTTPBasic(creds) THEN Unauthorized
    ELSE IF authPassword = "" THEN [status |-> 200, user |-> "anonymous"]
    ELSE IF ~(creds.username = AUTH_USERNAME /\ creds.password = authPassword)
         THEN Unauthorized
    ELSE [status |-> 200, user |-> creds.username]

----------------------------------------------------------------------------
\* Conversations and the store

NoConversation == [exists |-> FALSE, id |-> 0, title |-> "", messages |-> <<>>]

NewConversation(c) ==
    [exists |-> TRUE, id |-> c, title |-> DefaultTitle, messages |-> <<>>]

\* storage.load_conversation: a fresh copy of what is stored, or None.
load_conversation(c) == store[c]

\* storage.save_conversation: writes the whole conversation under the id.
save_conversation(c, conversation) == [store EXCEPT ![c] = conversation]

\* storage.delete_conversation: removes the record.
storage_delete_conversation(c) == [store EXCEPT ![c] = NoConversation]

----------------------------------------------------------------------------
\* Messages and results

NoMetadata == [label_to_model |-> <<>>, aggregate_rankings |-> <<>>]

\* The result slot of a message that carries none (a user message).
NoResult ==
    [kind |-> "none", failed_stage |-> "", stage1 |-> <<>>, stage2 |-> <<>>,
     stage3 |-> "", metadata |-> NoMetadata]

\* The content of the assistant message generate() builds.
StreamContent(stage1_results, stage2_results, stage3_result, label_to_model, aggregate_rankings) ==
    [kind |-> "council", failed_stage |-> "",
     stage1 |-> stage1_results,
     stage2 |-> stage2_results,
     stage3 |-> stage3_result,
     metadata |-> [label_to_model |-> label_to_model,
                   aggregate_rankings |-> aggregate_rankings]]

\* The text of a request is the request's number: two requests never carry
\* the same text, so a stored turn names the request it came from.
Content(r) == r

UserMessage(content) == [role |-> "user", content |-> content, result |-> NoResult]

AssistantMessage(result) == [role |-> "assistant", content |-> 0, result |-> result]

AppendUser(conversation, content) ==
    [conversation EXCEPT !.messages = Append(@, UserMessage(content))]

AppendAssistant(conversation, result) ==
    [conversation EXCEPT !.messages = Append(@, AssistantMessage(result))]

\* The first-exchange test as it would be before the assistant message is
\* appended.
IsFirstExchangeBeforeAppend(conversation) == Len(conversation.messages) = 1

\* "if first message" / "if first exchange": tested after both appends.
IsFirstExchange(conversation) == Len(conversation.messages) = 2

WithTitle(conversation, title) == [conversation EXCEPT !.title = title]

----------------------------------------------------------------------------
\* The council (backend/council.py)

Stage1Response(i, status) == [model |-> CouncilMembers[i], status |-> status]

\* Every outcome of the Stage 1 fan-out, in configured member order.
Stage1Outcomes ==
    {[i \in Members |-> Stage1Response(i, st[i])] : st \in [Members -> {"Ok", "Failed"}]}

OkResponses(stage1_results) == SelectSeq(stage1_results, LAMBDA x : x.status = "Ok")

AllFailedStage1(stage1_results) == OkResponses(stage1_results) = <<>>

\* stage1_collect_responses returns one of these; when every member fails it
\* raises instead.
Stage1Successes == {s \in Stage1Outcomes : ~AllFailedStage1(s)}

\* The anonymizer: labels in the order of the successful responses.
LabelToModel(stage1_results) ==
    LET ok == OkResponses(stage1_results)
    IN  [i \in 1..Len(ok) |-> [label |-> Labels[i], model |-> ok[i].model]]

BundleLabels(stage1_results) ==
    LET l2m == LabelToModel(stage1_results)
    IN  [i \in 1..Len(l2m) |-> l2m[i].label]

Stage2Ranking(i, ordered_labels) ==
    [reviewer |-> CouncilMembers[i],
     status |-> IF ordered_labels = <<>> THEN "Failed" ELSE "Ok",
     ordered_labels |-> ordered_labels]

\* Every outcome of the Stage 2 fan-out: each member fails or ranks the
\* whole bundle in some order.
Stage2Outcomes(stage1_results) ==
    {[i \in Members |-> Stage2Ranking(i, f[i])] :
        f \in [Members -> Perms(BundleLabels(stage1_results)) \cup {<<>>}]}

AllFailedStage2(stage2_results) ==
    \A i \in 1..Len(stage2_results) : stage2_results[i].status # "Ok"

Stage2Successes(stage1_results) ==
    {s \in Stage2Outcomes(stage1_results) : ~AllFailedStage2(s)}

\* What Stage 2 can return over all bundles.
AnyStage2Success == UNION {Stage2Successes(s1) : s1 \in Stage1Successes}

\* Points a ranking gives a label: first of L labels gets L, the next L-1, ...
Points(ranking, label) ==
    LET ol == ranking.ordered_labels
        at == {p \in 1..Len(ol) : ol[p] = label}
    IN  IF ranking.status # "Ok" \/ at = {} THEN 0
        ELSE Len(ol) - (CHOOSE p \in at : TRUE) + 1

RECURSIVE SumPoints(_, _, _)
SumPoints(stage2_results, label, n) ==
    IF n = 0 THEN 0
    ELSE SumPoints(stage2_results, label, n - 1) + Points(stage2_results[n], label)

\* Stable insertion by score, highest first: equal scores keep input order.
RECURSIVE InsertByScore(_, _)
InsertByScore(sorted, e) ==
    IF sorted = <<>> THEN <<e>>
    ELSE IF Last(sorted).score >= e.score THEN Append(sorted, e)
    ELSE Append(InsertByScore(SubSeq(sorted, 1, Len(sorted) - 1), e), Last(sorted))

RECURSIVE SortByScore(_, _)
SortByScore(entries, n) ==
    IF n = 0 THEN <<>>
    ELSE InsertByScore(SortByScore(entries, n - 1), entries[n])

\* The aggregator listing the models in the order the first successful
\* ranking names them, so that equal scores keep that order.
calculate_aggregate_rankings_by_encounter(stage2_results, label_to_model) ==
    LET ok == SelectSeq(stage2_results, LAMBDA x : x.status = "Ok")
        ModelOf(label) ==
            (CHOOSE e \in {label_to_model[i] : i \in 1..Len(label_to_model)} :
                e.label = label).model
        order == IF ok = <<>> THEN [i \in 1..Len(label_to_model) |-> label_to_model[i].label]
                 ELSE ok[1].ordered_labels
        scored ==
            [i \in 1..Len(order) |->
                [model |-> ModelOf(order[i]),
                 score |-> SumPoints(stage2_results, order[i], Len(stage2_results))]]
    IN  SortByScore(scored, Len(scored))

\* The rank aggregator: positional points summed per model, the models taken
\* in label-map order (configured member order), sorted by score.
calculate_aggregate_rankings(stage2_results, label_to_model) ==
    LET scored ==
            [i \in 1..Len(label_to_model) |->
                [model |-> label_to_model[i].model,
                 score |-> SumPoints(stage2_results, label_to_model[i].label,
                                     Len(stage2_results))]]
    IN  SortByScore(scored, Len(scored))

Stage3Answer == "final answer"

\* The CouncilResult run_full_council composes.
CouncilResult(stage1_results, stage2_results) ==
    StreamContent(stage1_results, stage2_results, Stage3Answer,
                  LabelToModel(stage1_results),
                  calculate_aggregate_rankings(stage2_results,
                                               LabelToModel(stage1_results)))

\* The error result run_full_council returns when the run fails at a stage.
FailureResult(stage) == [NoResult EXCEPT !.kind = "failure", !.failed_stage = stage]

Stages == {"stage1", "stage2", "stage3"}

\* Everything run_full_council can return.
RunFullCouncilOutcomes ==
    {FailureResult(s) : s \in Stages} \cup
    UNION {{CouncilResult(s1, s2) : s2 \in Stage2Successes(s1)} : s1 \in Stage1Successes}

\* The remote calls run_full_council made before it returned `result`.
CallsOf(result) ==
    IF result.failed_stage = "stage1" THEN <<"call:stage1">>
    ELSE IF result.failed_stage = "stage2" THEN <<"call:stage1", "call:stage2">>
    ELSE <<"call:stage1", "call:stage2", "call:stage3">>

\* generate_conversation_title: the generated title, or the default title
\* when the call fails.
TitleOutcomes == {GeneratedTitle, DefaultTitle}

----------------------------------------------------------------------------
\* One council run seen from inside (design, sections 4.1-4.3 and 5): each
\* stage launches one call per member, each call writes its own slot of a
\* collection indexed by member, and the slots are merged once all calls
\* have settled.

Pending == [status |-> "Pending"]

\* completion1, completion2: the members in the order their calls settled.
\* shuffled: the Stage 2 rankings handed to the aggregator in another order.
IdleFan ==
    [phase |-> "idle",
     completion1 |-> <<>>, slots1 |-> <<>>, stage1_results |-> <<>>,
     completion2 |-> <<>>, slots2 |-> <<>>, stage2_results |-> <<>>,
     aggregate_rankings |-> <<>>,
     shuffled |-> <<>>, aggregate_shuffled |-> <<>>]

Settled(completion, i) == \E k \in 1..Len(completion) : completion[k] = i

\* What a member's Stage 2 call can settle with, over all bundles: a ranking
\* of the bundle, or <<>> for a failed call.
AnyOrderedLabels ==
    {<<>>} \cup UNION {Perms(BundleLabels(s1)) : s1 \in Stage1Successes}

\* The orders in which a sequence of one entry per member can be handed on.
MemberOrders == Perms([i \in Members |-> i])

\* Position of a model in the configured member list.
MemberIndex(model) == CHOOSE i \in Members : CouncilMembers[i] = model

----------------------------------------------------------------------------
\* Requests

\* A request that has not arrived. `user` is what verify_credentials returned,
\* `first` whether the conversation was loaded without messages; the fields
\* after it are the local variables of the handler; `log` lists, in order, the events the request
\* has emitted and the remote calls and saves it has made.
IdleRun ==
    [pc |-> "idle", mode |-> "none", user |-> "", cid |-> 0, first |-> FALSE,
     conversation |-> NoConversation,
     stage1_results |-> <<>>, stage2_results |-> <<>>,
     label_to_model |-> <<>>, aggregate_rankings |-> <<>>,
     log |-> <<>>, failed_stage |-> "", title_failed |-> FALSE]

\* A handler that has ended: its local variables are gone.
Ended(rec, pc) ==
    [rec EXCEPT !.pc = pc, !.conversation = NoConversation,
                !.stage1_results = <<>>, !.stage2_results = <<>>,
                !.label_to_model = <<>>, !.aggregate_rankings = <<>>]

EventTypes ==
    {"stage1_start", "stage1_complete", "stage2_start", "stage2_complete",
     "stage3_start", "stage3_complete", "title_update", "done", "error"}

\* The events a request has emitted, in order.
Events(r) == SelectSeq(run[r].log, LAMBDA x : x \in EventTypes)

\* The remote calls a request has issued, in order.
Calls(r) ==
    SelectSeq(run[r].log,
              LAMBDA x : x \in {"call:stage1", "call:stage2", "call:stage3", "call:title"})

InLog(r, x) == \E i \in 1..Len(run[r].log) : run[r].log[i] = x

\* Requests are numbered in the order they arrive.
Arrives(r) == run[r].pc = "idle" /\ \A q \in Runs : q < r => run[q].pc # "idle"

Init ==
    /\ authPassword \in PasswordSettings
    /\ store = [c \in ConvIds |-> NoConversation]
    /\ nextId = 1
    /\ resp = 0
    /\ run = [r \in RunIds |-> IdleRun]
    /\ fan = IdleFan

----------------------------------------------------------------------------
\* The conversation routes

create_conversation(creds) ==
    /\ nextId <= MaxConvs
    /\ IF verify_credentials(creds).status = 401
       THEN resp' = 401 /\ UNCHANGED <<store, nextId>>
       ELSE /\ store' = save_conversation(nextId, NewConversation(nextId))
            /\ nextId' = nextId + 1
            /\ resp' = 200
    /\ UNCHANGED <<authPassword, fan, run>>

list_conversations(creds) ==
    /\ resp' = verify_credentials(creds).status
    /\ UNCHANGED <<authPassword, fan, store, nextId, run>>

get_conversation(c, creds) ==
    /\ resp' = IF verify_credentials(creds).status = 401 THEN 401
               ELSE IF ~load_conversation(c).exists THEN 404
               ELSE 200
    /\ UNCHANGED <<authPassword, fan, store, nextId, run>>

delete_conversation(c, creds) ==
    /\ IF verify_credentials(creds).status = 401
       THEN resp' = 401 /\ UNCHANGED store
       ELSE IF store[c].exists
       THEN resp' = 200 /\ store' = storage_delete_conversation(c)
       ELSE resp' = 404 /\ UNCHANGED store
    /\ UNCHANGED <<authPassword, fan, nextId, run>>

----------------------------------------------------------------------------
\* send_message (batch)

\* The handler up to `await run_full_council(...)`.
send_message(r, c, creds) ==
    /\ Arrives(r)
    /\ run' = [run EXCEPT ![r] =
            IF verify_credentials(creds).status = 401
            THEN [@ EXCEPT !.pc = "rejected", !.mode = "batch"]
            ELSE IF ~load_conversation(c).exists
            THEN [@ EXCEPT !.pc = "notfound", !.mode = "batch", !.cid = c,
                           !.user = verify_credentials(creds).user]
            ELSE [@ EXCEPT !.pc = "council", !.mode = "batch", !.cid = c,
                           !.user = verify_credentials(creds).user,
                           !.first = (load_conversation(c).messages = <<>>),
                           !.conversation = load_conversation(c)]]
    /\ UNCHANGED <<authPassword, fan, store, nextId, resp>>

\* run_full_council returns `result`: both messages are appended; then the
\* title call is issued, or the conversation is saved and the result returned.
BatchCouncilReturns(r, result) ==
    /\ run[r].pc = "council"
    /\ LET conversation ==
               AppendAssistant(AppendUser(run[r].conversation, Content(r)), result)
           log == run[r].log \o CallsOf(result)
       IN  IF IsFirstExchange(conversation)
           THEN /\ run' = [run EXCEPT ![r] =
                       [@ EXCEPT !.pc = "btitle", !.conversation = conversation,
                                 !.failed_stage = result.failed_stage,
                                 !.log = Append(log, "call:title")]]
                /\ UNCHANGED store
           ELSE /\ store' = save_conversation(run[r].cid, conversation)
                /\ run' = [run EXCEPT ![r] =
                       Ended([@ EXCEPT !.failed_stage = result.failed_stage,
                                       !.log = Append(log, "save")], "returned")]
    /\ UNCHANGED <<authPassword, fan, nextId, resp>>

\* generate_conversation_title returns `title`.
BatchTitleReturns(r, title) ==
    /\ run[r].pc = "btitle"
    /\ store' = save_conversation(run[r].cid, WithTitle(run[r].conversation, title))
    /\ run' = [run EXCEPT ![r] =
           Ended([@ EXCEPT !.title_failed = (title = DefaultTitle),
                           !.log = Append(@, "save")], "returned")]
    /\ UNCHANGED <<authPassword, fan, nextId, resp>>

----------------------------------------------------------------------------
\* send_message_stream (streaming)

\* The streaming route starting the generator without looking whether the
\* conversation was found.
send_message_stream_unchecked(r, c, creds) ==
    /\ Arrives(r)
    /\ run' = [run EXCEPT ![r] =
            IF verify_credentials(creds).status = 401
            THEN [@ EXCEPT !.pc = "rejected", !.mode = "stream"]
            ELSE [@ EXCEPT !.pc = "gen", !.mode = "stream", !.cid = c,
                           !.user = verify_credentials(creds).user,
                           !.first = (load_conversation(c).messages = <<>>),
                           !.conversation = load_conversation(c)]]
    /\ UNCHANGED <<authPassword, fan, store, nextId, resp>>

\* The handler: it returns the StreamingResponse over generate().
send_message_stream(r, c, creds) ==
    /\ Arrives(r)
    /\ run' = [run EXCEPT ![r] =
            IF verify_credentials(creds).status = 401
            THEN [@ EXCEPT !.pc = "rejected", !.mode = "stream"]
            ELSE IF ~load_conversation(c).exists
            THEN [@ EXCEPT !.pc = "notfound", !.mode = "stream", !.cid = c,
                           !.user = verify_credentials(creds).user]
            ELSE [@ EXCEPT !.pc = "gen", !.mode = "stream", !.cid = c,
                           !.user = verify_credentials(creds).user,
                           !.first = (load_conversation(c).messages = <<>>),
                           !.conversation = load_conversation(c)]]
    /\ UNCHANGED <<authPassword, fan, store, nextId, resp>>

\* generate() writing the user message to the store before Stage 1.
GenerateStartSavingUser(r) ==
    /\ run[r].pc = "gen"
    /\ store' = save_conversation(run[r].cid, AppendUser(run[r].conversation, Content(r)))
    /\ run' = [run EXCEPT ![r] =
           [@ EXCEPT !.pc = "stage1",
                     !.conversation = AppendUser(@, Content(r)),
                     !.log = @ \o <<"save", "stage1_start", "call:stage1">>]]
    /\ UNCHANGED <<authPassword, fan, nextId, resp>>

\* generate() from its start to `await stage1_collect_responses(...)`.
GenerateStart(r) ==
    /\ run[r].pc = "gen"
    /\ run' = [run EXCEPT ![r] =
           [@ EXCEPT !.pc = "stage1",
                     !.conversation = AppendUser(@, Content(r)),
                     !.log = @ \o <<"stage1_start", "call:stage1">>]]
    /\ UNCHANGED <<authPassword, fan, store, nextId, resp>>

\* A stage call raises: nothing in generate() catches it, the generator ends.
Raises(r, stage) ==
    /\ run[r].pc = stage
    /\ run' = [run EXCEPT ![r] = Ended([@ EXCEPT !.failed_stage = stage], "failed")]
    /\ UNCHANGED <<authPassword, fan, store, nextId, resp>>

\* Stage 1 returns and Stage 2 is called before stage1_complete is emitted.
Stage1ReturnsCallingEarly(r, stage1_results) ==
    /\ run[r].pc = "stage1"
    /\ run' = [run EXCEPT ![r] =
           [@ EXCEPT !.pc = "stage2",
                     !.stage1_results = stage1_results,
                     !.log = @ \o <<"call:stage2", "stage1_complete", "stage2_start">>]]
    /\ UNCHANGED <<authPassword, fan, store, nextId, resp>>

\* Stage 1 returns: on to `await stage2_collect_rankings(...)`.
Stage1Returns(r, stage1_results) ==
    /\ run[r].pc = "stage1"
    /\ run' = [run EXCEPT ![r] =
           [@ EXCEPT !.pc = "stage2",
                     !.stage1_results = stage1_results,
                     !.log = @ \o <<"stage1_complete", "stage2_start", "call:stage2">>]]
    /\ UNCHANGED <<authPassword, fan, store, nextId, resp>>

\* A Stage 1 failure swallowed: the generator goes on to Stage 2 with no
\* successful response.
Stage1FailureIgnored(r) ==
    /\ run[r].pc = "stage1"
    /\ run' = [run EXCEPT ![r] =
           [@ EXCEPT !.pc = "stage2",
                     !.failed_stage = "stage1",
                     !.stage1_results = [i \in Members |-> Stage1Response(i, "Failed")],
                     !.log = @ \o <<"stage1_complete", "stage2_start", "call:stage2">>]]
    /\ UNCHANGED <<authPassword, fan, store, nextId, resp>>

\* Every member failed Stage 1.
Stage1Raises(r) == Raises(r, "stage1")

\* Stage 2 returns the rankings and the label map: the aggregate is
\* computed, on to `await stage3_synthesize_final(...)`.
Stage2Returns(r, stage2_results) ==
    /\ run[r].pc = "stage2"
    /\ stage2_results \in Stage2Successes(run[r].stage1_results)
    /\ LET label_to_model == LabelToModel(run[r].stage1_results)
       IN  run' = [run EXCEPT ![r] =
               [@ EXCEPT !.pc = "stage3",
                         !.stage2_results = stage2_results,
                         !.label_to_model = label_to_model,
                         !.aggregate_rankings =
                             calculate_aggregate_rankings(stage2_results, label_to_model),
                         !.log = @ \o <<"aggregate", "stage2_complete", "stage3_start",
                                        "call:stage3">>]]
    /\ UNCHANGED <<authPassword, fan, store, nextId, resp>>

\* Every reviewer failed Stage 2.
Stage2Raises(r) == Raises(r, "stage2")

\* The chairman call returning on a later exchange with `done` sent and the
\* save left out.
Stage3ReturnsDoneUnsaved(r) ==
    /\ run[r].pc = "stage3"
    /\ LET conversation ==
               AppendAssistant(run[r].conversation,
                   StreamContent(run[r].stage1_results, run[r].stage2_results,
                                 Stage3Answer, run[r].label_to_model,
                                 run[r].aggregate_rankings))
       IN  IF IsFirstExchange(conversation)
           THEN /\ run' = [run EXCEPT ![r] =
                       [@ EXCEPT !.pc = "title", !.conversation = conversation,
                                 !.log = @ \o <<"stage3_complete", "call:title">>]]
                /\ UNCHANGED store
           ELSE /\ UNCHANGED store
                /\ run' = [run EXCEPT ![r] =
                       Ended([@ EXCEPT !.log = @ \o <<"stage3_complete", "done">>],
                             "done")]
    /\ UNCHANGED <<authPassword, fan, nextId, resp>>

\* Stage 3 returns: the assistant message is appended; then the title call
\* is issued, or the conversation is saved and `done` emitted.
Stage3Returns(r) ==
    /\ run[r].pc = "stage3"
    /\ LET conversation ==
               AppendAssistant(run[r].conversation,
                   StreamContent(run[r].stage1_results, run[r].stage2_results,
                                 Stage3Answer, run[r].label_to_model,
                                 run[r].aggregate_rankings))
       IN  IF IsFirstExchange(conversation)
           THEN /\ run' = [run EXCEPT ![r] =
                       [@ EXCEPT !.pc = "title", !.conversation = conversation,
                                 !.log = @ \o <<"stage3_complete", "call:title">>]]
                /\ UNCHANGED store
           ELSE /\ store' = save_conversation(run[r].cid, conversation)
                /\ run' = [run EXCEPT ![r] =
                       Ended([@ EXCEPT !.log = @ \o <<"stage3_complete", "save", "done">>],
                             "done")]
    /\ UNCHANGED <<authPassword, fan, nextId, resp>>

\* The chairman call failed.
Stage3Raises(r) == Raises(r, "stage3")

\* A failed title call ending the generator instead of being absorbed.
TitleReturnsFailureAborts(r, title) ==
    /\ run[r].pc = "title"
    /\ IF title = DefaultTitle
       THEN /\ run' = [run EXCEPT ![r] = Ended([@ EXCEPT !.title_failed = TRUE], "failed")]
            /\ UNCHANGED store
       ELSE /\ store' = save_conversation(run[r].cid, WithTitle(run[r].conversation, title))
            /\ run' = [run EXCEPT ![r] =
                   Ended([@ EXCEPT !.log = @ \o <<"title_update", "save", "done">>], "done")]
    /\ UNCHANGED <<authPassword, fan, nextId, resp>>

\* generate_conversation_title returns `title`.
TitleReturns(r, title) ==
    /\ run[r].pc = "title"
    /\ store' = save_conversation(run[r].cid, WithTitle(run[r].conversation, title))
    /\ run' = [run EXCEPT ![r] =
           Ended([@ EXCEPT !.title_failed = (title = DefaultTitle),
                           !.log = @ \o <<"title_update", "save", "done">>], "done")]
    /\ UNCHANGED <<authPassword, fan, nextId, resp>>

\* The client disconnects: the generator is cancelled where it is suspended.
Cancel(r) ==
    /\ run[r].pc \in {"gen", "stage1", "stage2", "stage3", "title"}
    /\ run' = [run EXCEPT ![r] = Ended(@, "cancelled")]
    /\ UNCHANGED <<authPassword, fan, store, nextId, resp>>

----------------------------------------------------------------------------

Next ==
    \/ \E creds \in Creds : create_conversation(creds)
    \/ \E creds \in Creds : list_conversations(creds)
    \/ \E c \in ConvIds, creds \in Creds : get_conversation(c, creds)
    \/ \E c \in ConvIds, creds \in Creds : delete_conversation(c, creds)
    \/ \E r \in RunIds, c \in ConvIds, creds \in Creds : send_message(r, c, creds)
    \/ \E r \in RunIds, result \in RunFullCouncilOutcomes : BatchCouncilReturns(r, result)
    \/ \E r \in RunIds, title \in TitleOutcomes : BatchTitleReturns(r, title)
    \/ \E r \in RunIds, c \in ConvIds, creds \in Creds : send_message_stream(r, c, creds)
    \/ \E r \in RunIds : GenerateStart(r)
    \/ \E r \in RunIds, s1 \in Stage1Successes : Stage1Returns(r, s1)
    \/ \E r \in RunIds : Stage1Raises(r)
    \/ \E r \in RunIds, s2 \in AnyStage2Success : Stage2Returns(r, s2)
    \/ \E r \in RunIds : Stage2Raises(r)
    \/ \E r \in RunIds : Stage3Returns(r)
    \/ \E r \in RunIds : Stage3Raises(r)
    \/ \E r \in RunIds, title \in TitleOutcomes : TitleReturns(r, title)
    \/ \E r \in RunIds : Cancel(r)

Spec == Init /\ [][Next]_vars

\* Batch requests alone, one more of them: conversations are created and
\* send_message runs, nothing else.
InitBatch ==
    /\ authPassword \in PasswordSettings
    /\ store = [c \in ConvIds |-> NoConversation]
    /\ nextId = 1
    /\ resp = 0
    /\ run = [r \in BatchRunIds |-> IdleRun]
    /\ fan = IdleFan

NextBatch ==
    \/ \E creds \in Creds : create_conversation(creds)
    \/ \E r \in BatchRunIds, c \in ConvIds, creds \in Creds : send_message(r, c, creds)
    \/ \E r \in BatchRunIds, result \in RunFullCouncilOutcomes : BatchCouncilReturns(r, result)
    \/ \E r \in BatchRunIds, title \in TitleOutcomes : BatchTitleReturns(r, title)

SpecBatch == InitBatch /\ [][NextBatch]_vars

----------------------------------------------------------------------------
\* The council run from inside

\* Stage 1 launches one call per member.
Stage1FanOut ==
    /\ fan.phase = "idle"
    /\ fan' = [fan EXCEPT !.phase = "stage1", !.slots1 = [i \in Members |-> Pending]]
    /\ UNCHANGED <<authPassword, store, nextId, resp, run>>

\* The Stage 1 call of member i settles and writes its slot.
Stage1MemberSettles(i, status) ==
    /\ fan.phase = "stage1"
    /\ ~Settled(fan.completion1, i)
    /\ fan' = [fan EXCEPT !.slots1[i] = Stage1Response(i, status),
                          !.completion1 = Append(@, i)]
    /\ UNCHANGED <<authPassword, store, nextId, resp, run>>

\* The Stage 1 merge taking the responses in the order the calls settled.
Stage1MergeByCompletion ==
    /\ fan.phase = "stage1"
    /\ Len(fan.completion1) = NumMembers
    /\ LET stage1_results == [k \in Members |-> fan.slots1[fan.completion1[k]]]
       IN  fan' = [fan EXCEPT
                     !.stage1_results = stage1_results,
                     !.phase = IF AllFailedStage1(stage1_results) THEN "failed" ELSE "stage2",
                     !.slots2 = [i \in Members |-> Pending]]
    /\ UNCHANGED <<authPassword, store, nextId, resp, run>>

\* All Stage 1 calls have settled: the slots are merged by member index;
\* the run fails when no member answered, else Stage 2 launches its calls.
Stage1Merge ==
    /\ fan.phase = "stage1"
    /\ Len(fan.completion1) = NumMembers
    /\ LET stage1_results == [i \in Members |-> fan.slots1[i]]
       IN  fan' = [fan EXCEPT
                     !.stage1_results = stage1_results,
                     !.phase = IF AllFailedStage1(stage1_results) THEN "failed" ELSE "stage2",
                     !.slots2 = [i \in Members |-> Pending]]
    /\ UNCHANGED <<authPassword, store, nextId, resp, run>>

\* The Stage 2 call of member i settles: a ranking of the bundle, or a
\* failure.
Stage2MemberSettles(i, ordered_labels) ==
    /\ fan.phase = "stage2"
    /\ ~Settled(fan.completion2, i)
    /\ ordered_labels = <<>> \/ ordered_labels \in Perms(BundleLabels(fan.stage1_results))
    /\ fan' = [fan EXCEPT !.slots2[i] = Stage2Ranking(i, ordered_labels),
                          !.completion2 = Append(@, i)]
    /\ UNCHANGED <<authPassword, store, nextId, resp, run>>

\* All Stage 2 calls have settled: merge by member index; the run fails
\* when no ranking was obtained.
Stage2Merge ==
    /\ fan.phase = "stage2"
    /\ Len(fan.completion2) = NumMembers
    /\ LET stage2_results == [i \in Members |-> fan.slots2[i]]
       IN  fan' = [fan EXCEPT
                     !.stage2_results = stage2_results,
                     !.phase = IF AllFailedStage2(stage2_results) THEN "failed" ELSE "aggregate"]
    /\ UNCHANGED <<authPassword, store, nextId, resp, run>>

\* The driver computes the aggregate ranking.
Aggregate ==
    /\ fan.phase = "aggregate"
    /\ fan' = [fan EXCEPT
                  !.aggregate_rankings =
                      calculate_aggregate_rankings(fan.stage2_results,
                                                   LabelToModel(fan.stage1_results)),
                  !.phase = "aggregated"]
    /\ UNCHANGED <<authPassword, store, nextId, resp, run>>

\* The aggregator applied to the same rankings in the order `order`.
AggregateShuffled(order) ==
    /\ fan.phase = "aggregated"
    /\ LET shuffled == [k \in Members |-> fan.stage2_results[order[k]]]
       IN  fan' = [fan EXCEPT
                     !.shuffled = shuffled,
                     !.aggregate_shuffled =
                         calculate_aggregate_rankings(shuffled,
                                                      LabelToModel(fan.stage1_results)),
                     !.phase = "done"]
    /\ UNCHANGED <<authPassword, store, nextId, resp, run>>

NextCouncil ==
    \/ Stage1FanOut
    \/ \E i \in Members, status \in {"Ok", "Failed"} : Stage1MemberSettles(i, status)
    \/ Stage1Merge
    \/ \E i \in Members, ordered_labels \in AnyOrderedLabels : Stage2MemberSettles(i, ordered_labels)
    \/ Stage2Merge
    \/ Aggregate
    \/ \E order \in MemberOrders : AggregateShuffled(order)

SpecCouncil == Init /\ [][NextCouncil]_vars

----------------------------------------------------------------------------
\* What the claims speak of

StreamRuns == {r \in Runs : run[r].mode = "stream"}
BatchRuns == {r \in Runs : run[r].mode = "batch"}

EightEvents ==
    <<"stage1_start", "stage1_complete", "stage2_start", "stage2_complete",
      "stage3_start", "stage3_complete", "title_update", "done">>

TerminalEvents(r) == SelectSeq(run[r].log, LAMBDA x : x \in {"done", "error"})

\* Some stored conversation holds a turn of request r.
StoredTurnOf(r) ==
    \E c \in ConvIds : \E i \in 1..Len(store[c].messages) :
        store[c].messages[i] = UserMessage(Content(r))

\* Some stored conversation holds the prompt of request r followed by a
\* CouncilResult.
StoredResultOf(r) ==
    \E c \in ConvIds : \E i \in 1..(Len(store[c].messages) - 1) :
        /\ store[c].messages[i] = UserMessage(Content(r))
        /\ store[c].messages[i + 1].role = "assistant"
        /\ store[c].messages[i + 1].result.kind = "council"

\* The messages end with the prompt of request r and an assistant turn.
EndsWithTurnsOf(messages, r) ==
    /\ Len(messages) >= 2
    /\ messages[Len(messages) - 1] = UserMessage(Content(r))
    /\ messages[Len(messages)].role = "assistant"

----------------------------------------------------------------------------
\* C1: a streaming run on a conversation loaded without messages emits a
\* prefix of the eight events stage1_start .. done, in that order, and once
\* it has ended successfully it has emitted exactly the eight, each once,
\* with nothing after done.
C1_FreshStreamEmitsEightEvents ==
    \A r \in StreamRuns :
        run[r].first =>
            /\ IsPrefix(Events(r), EightEvents)
            /\ run[r].pc = "done" => Events(r) = EightEvents

C1_Witness ==
    \E r \in StreamRuns :
        run[r].first /\ run[r].pc = "done" /\ ~run[r].title_failed
        /\ Events(r) = EightEvents

\* C2: a streaming run that failed at a stage has `error` as its last event
\* and no `done`; what precedes the error are the progress events in order.
C2_FailedStreamEndsWithError ==
    \A r \in StreamRuns :
        run[r].pc = "failed" =>
            /\ Events(r) # <<>>
            /\ Last(Events(r)) = "error"
            /\ ~InLog(r, "done")
            /\ IsPrefix(SubSeq(Events(r), 1, Len(Events(r)) - 1), EightEvents)

\* C3: when every member fails Stage 1 the run issues no Stage 2 and no
\* Stage 3 call, never reaches Done and no CouncilResult of it is stored;
\* when Stage 1 returns, at least one member succeeded and Stage 2 is called
\* with those results.
C3_Stage1TotalFailureStopsRun ==
    \A r \in Runs :
        /\ run[r].failed_stage = "stage1" =>
               /\ ~InLog(r, "call:stage2")
               /\ ~InLog(r, "call:stage3")
               /\ run[r].pc # "done"
               /\ ~InLog(r, "done")
               /\ ~StoredResultOf(r)
        /\ (r \in StreamRuns /\ InLog(r, "stage1_complete")) =>
               /\ InLog(r, "call:stage2")
               /\ run[r].pc = "stage2" =>
                      /\ run[r].stage1_results \in Stage1Outcomes
                      /\ ~AllFailedStage1(run[r].stage1_results)

C3_Witness ==
    \E r, q \in StreamRuns :
        /\ run[r].pc = "failed" /\ run[r].failed_stage = "stage1"
        /\ Events(r) = <<"stage1_start">>
        /\ run[q].pc = "stage2"
        /\ Len(OkResponses(run[q].stage1_results)) = 1

\* C4: a streaming run cancelled while Stage 2 is in flight emits nothing
\* more, issues no Stage 3 or title call, and has written nothing to the
\* store: no turn of it is stored, and cancelling leaves the store as it is.
CancelledInStage2(r) ==
    /\ run[r].pc = "cancelled"
    /\ Events(r) = <<"stage1_start", "stage1_complete", "stage2_start">>

C4_CancelledRunLeavesNoTrace ==
    \A r \in StreamRuns :
        CancelledInStage2(r) =>
            /\ ~InLog(r, "call:stage3")
            /\ ~InLog(r, "call:title")
            /\ ~InLog(r, "save")
            /\ ~StoredTurnOf(r)

C4_CancelChangesNothing ==
    \A r \in Runs :
        /\ (run[r].pc = "stage2" /\ run'[r].pc = "cancelled") =>
               store' = store /\ run'[r].log = run[r].log
        /\ run[r].pc = "cancelled" => run'[r] = run[r]

C4_CancelMidStage2 == [](C4_CancelledRunLeavesNoTrace) /\ [][C4_CancelChangesNothing]_vars

C4_Witness ==
    \E r \in StreamRuns :
        /\ CancelledInStage2(r)
        /\ store[run[r].cid].exists
        /\ \E q \in Runs : q # r /\ run[q].pc \in {"done", "returned"}

\* C5: every save of a run extends what is stored: the messages stored
\* before the step are a prefix of the messages stored after it.
C5_StoredMessagesOnlyGrow ==
    [][\A c \in ConvIds :
          (store[c].exists /\ store'[c].exists) =>
              IsPrefix(store[c].messages, store'[c].messages)]_vars

\* C6: when the title call of a first exchange fails, the run still ends
\* normally: the conversation is saved with the prompt and the assistant
\* turn and with the default title, batch returns, streaming emits done and
\* no error.
C6_TitleFailureStep ==
    \A r \in Runs :
        (run[r].pc \in {"title", "btitle"} /\ run'[r].title_failed) =>
            /\ run'[r].pc = IF run[r].mode = "stream" THEN "done" ELSE "returned"
            /\ store'[run[r].cid].exists
            /\ store'[run[r].cid].title = DefaultTitle
            /\ store'[run[r].cid].messages = run[r].conversation.messages
            /\ EndsWithTurnsOf(store'[run[r].cid].messages, r)
            /\ run[r].mode = "stream" =>
                   /\ Last(run'[r].log) = "done"
                   /\ \A i \in 1..Len(run'[r].log) : run'[r].log[i] # "error"

C6_TitleFailureIsAbsorbed == [][C6_TitleFailureStep]_vars

C6_Witness ==
    \E r \in StreamRuns :
        /\ run[r].pc = "done" /\ run[r].title_failed
        /\ store[run[r].cid].title = DefaultTitle
        /\ StoredResultOf(r)

\* C7: a streaming run whose stream has ended without being cancelled has
\* emitted exactly one terminal event, done or error, and it is the last.
C7_EndedStreamHasOneTerminalEvent ==
    \A r \in StreamRuns :
        run[r].pc \in {"done", "failed"} =>
            /\ Len(TerminalEvents(r)) = 1
            /\ Last(Events(r)) \in {"done", "error"}

\* C8: no stored conversation record contains the label map of a run. The
\* label map of a run is the label_to_model generate() receives from Stage 2:
\* no stored turn of a streaming request carries one.
C8_LabelMapNeverStored ==
    \A r \in StreamRuns : \A c \in ConvIds : \A i \in 1..(Len(store[c].messages) - 1) :
        store[c].messages[i] = UserMessage(Content(r)) =>
            store[c].messages[i + 1].result.metadata.label_to_model = <<>>

\* C9: the step in which a batch call returns either returns a complete
\* CouncilResult and leaves the prompt followed by that result at the end of
\* the stored conversation, or returns a failure naming the stage and leaves
\* the store unchanged.
C9_BatchReturnStep ==
    \A r \in Runs :
        (run[r].pc \in {"council", "btitle"} /\ run'[r].pc = "returned") =>
            IF run'[r].failed_stage = ""
            THEN /\ EndsWithTurnsOf(store'[run[r].cid].messages, r)
                 /\ Last(store'[run[r].cid].messages).result.kind = "council"
            ELSE /\ run'[r].failed_stage \in Stages
                 /\ store' = store

C9_BatchAllOrNothing == [][C9_BatchReturnStep]_vars

\* C10: with AUTH_PASSWORD unset no request is answered 401 and every
\* request runs as "anonymous"; with it set only the configured user gets
\* past verify_credentials; a rejected message request has read and written
\* nothing, called no model and emitted no event.
C10_AllRoutesProtected ==
    /\ authPassword = "" =>
           /\ resp # 401
           /\ \A r \in Runs : run[r].pc # "rejected"
           /\ \A r \in Runs : run[r].pc # "idle" => run[r].user = "anonymous"
    /\ authPassword # "" =>
           \A r \in Runs :
               run[r].pc \notin {"idle", "rejected"} => run[r].user = AUTH_USERNAME
    /\ \A r \in Runs :
           run[r].pc = "rejected" =>
               /\ run[r].log = <<>>
               /\ run[r].conversation = NoConversation
               /\ ~StoredTurnOf(r)

\* C13: in a streaming run every call and the aggregation come after the
\* events that precede them in generate() and before those that follow, and
\* each stage is called at most once; a completed run has called the
\* chairman exactly once.
Count(r, x) == Cardinality({i \in 1..Len(run[r].log) : run[r].log[i] = x})

\* Every occurrence of b in the log of r has an a before it.
Precedes(r, a, b) ==
    \A j \in 1..Len(run[r].log) :
        run[r].log[j] = b => \E i \in 1..(j - 1) : run[r].log[i] = a

C13_StagesStrictlySequenced ==
    \A r \in StreamRuns :
        /\ Precedes(r, "stage1_start", "call:stage1")
        /\ Precedes(r, "call:stage1", "stage1_complete")
        /\ Precedes(r, "stage1_complete", "call:stage2")
        /\ Precedes(r, "stage2_start", "call:stage2")
        /\ Precedes(r, "call:stage2", "aggregate")
        /\ Precedes(r, "aggregate", "stage2_complete")
        /\ Precedes(r, "stage2_complete", "call:stage3")
        /\ Precedes(r, "stage3_start", "call:stage3")
        /\ Precedes(r, "call:stage3", "stage3_complete")
        /\ \A x \in {"call:stage1", "call:stage2", "call:stage3", "aggregate"} :
               Count(r, x) <= 1
        /\ run[r].pc = "done" => Count(r, "call:stage3") = 1

C13_Witness ==
    \E r \in StreamRuns :
        /\ run[r].pc = "done"
        /\ Count(r, "call:stage1") = 1 /\ Count(r, "call:stage2") = 1
        /\ Count(r, "aggregate") = 1 /\ Count(r, "call:stage3") = 1

\* C14: the title call is issued, and title_update emitted, only by a run
\* that loaded the conversation without messages; a run that ends normally
\* has issued it exactly if it loaded the conversation without messages; and
\* the save of a run that loaded messages leaves the stored title as it was.
SavesNow(r) == Count(r, "save")' > Count(r, "save")

C14_TitleStep ==
    \A r \in Runs :
        /\ InLog(r, "call:title")' => run'[r].first
        /\ InLog(r, "title_update")' => run'[r].first
        /\ run'[r].pc \in {"done", "returned"} =>
               /\ run'[r].first <=> InLog(r, "call:title")'
               /\ run'[r].mode = "stream" =>
                      (run'[r].first <=> InLog(r, "title_update")')
        /\ (SavesNow(r) /\ ~run[r].first /\ store[run[r].cid].exists) =>
               store'[run[r].cid].title = store[run[r].cid].title

C14_TitleOnlyOnFirstExchange == [][C14_TitleStep]_vars

\* C15 as stated: in every state in which a streaming run has emitted
\* `done`, a stored conversation holds its prompt followed by a CouncilResult.
C15_DoneImpliesStored ==
    \A r \in StreamRuns : InLog(r, "done") => StoredResultOf(r)

\* C15, amended: a streaming run emits `done` only after its save, and at the
\* step that emits `done` the stored conversation ends with the run's prompt
\* followed by its CouncilResult (stage1, stage2, stage3 and metadata).
C15_DoneStep ==
    \A r \in Runs :
        (run[r].mode = "stream" /\ ~InLog(r, "done") /\ InLog(r, "done")') =>
            LET conversation == store'[run[r].cid]
                result == Last(conversation.messages).result
            IN  /\ conversation.exists
                /\ EndsWithTurnsOf(conversation.messages, r)
                /\ result.kind = "council"
                /\ result.stage1 = run[r].stage1_results
                /\ result.stage2 = run[r].stage2_results
                /\ result.stage3 = Stage3Answer
                /\ result.metadata.aggregate_rankings = run[r].aggregate_rankings

C15_DoneAfterSave ==
    /\ [](\A r \in StreamRuns : Precedes(r, "save", "done"))
    /\ [][C15_DoneStep]_vars

C15_Witness ==
    \E r \in StreamRuns :
        /\ run[r].pc = "done"
        /\ InLog(r, "done")
        /\ ~run[r].first
        /\ StoredResultOf(r)

\* C17: a message request, batch or streaming, on a conversation id that is
\* not in the store ends with 404 at once: it has issued no stage or title
\* call and emitted no event, the store is as it was before the request and
\* holds no turn of it, and the request does nothing afterwards.
C17_NotFoundState ==
    \A r \in Runs :
        run[r].pc = "notfound" =>
            /\ run[r].log = <<>>
            /\ run[r].conversation = NoConversation
            /\ ~StoredTurnOf(r)

C17_NotFoundStep ==
    \A r \in Runs :
        /\ ( /\ run[r].pc = "idle"
             /\ run'[r].pc \notin {"idle", "rejected"}
             /\ ~store[run'[r].cid].exists ) =>
               /\ run'[r].pc = "notfound"
               /\ run'[r].log = <<>>
               /\ store' = store
        /\ run[r].pc = "notfound" => run'[r] = run[r]

C17_MissingConversationIs404 == [](C17_NotFoundState) /\ [][C17_NotFoundStep]_vars

C17_Witness ==
    \E r, q \in Runs :
        /\ run[r].pc = "notfound" /\ run[r].mode = "stream"
        /\ run[q].pc = "notfound" /\ run[q].mode = "batch"
        /\ \A c \in ConvIds : ~store[c].exists

\* C18: once a conversation has been deleted, its id is absent from the store
\* in every later state, also when a request on it was in flight at the time
\* of the delete.  Ids are never issued twice, so an id below nextId that is
\* not stored is the id of a deleted conversation.
C18_DeletedStaysDeleted ==
    \A c \in ConvIds :
        (c < nextId /\ ~store[c].exists) => ~store'[c].exists

C18_DeletionIsPermanent == [][C18_DeletedStaysDeleted]_vars

\* C16: in every state each stored conversation's message list has even
\* length and alternates user turn, assistant turn, and every assistant turn
\* is a CouncilResult: no user prompt is stored without the CouncilResult of
\* its run.
C16_StoredTurnsArePairs ==
    \A c \in ConvIds :
        LET messages == store[c].messages
        IN  /\ Len(messages) % 2 = 0
            /\ \A i \in 1..Len(messages) :
                   IF i % 2 = 1
                   THEN /\ messages[i].role = "user"
                        /\ messages[i].result = NoResult
                   ELSE /\ messages[i].role = "assistant"
                        /\ messages[i].result.kind = "council"

\* C11: whatever the order in which the members' Stage 1 calls settle, the
\* Stage 1 result sequence is in configured-member order, entry i being the
\* response of member i; it has one entry per member (N entries with status
\* Ok when all N succeed) and is one of the sequences the driver works with.
C11_Stage1InConfiguredOrder ==
    fan.phase \notin {"idle", "stage1"} =>
        /\ Len(fan.stage1_results) = NumMembers
        /\ \A i \in Members :
               /\ fan.stage1_results[i].model = CouncilMembers[i]
               /\ fan.stage1_results[i] = fan.slots1[i]
        /\ fan.stage1_results \in Stage1Outcomes
        /\ (\A i \in Members : fan.slots1[i].status = "Ok") =>
               Len(OkResponses(fan.stage1_results)) = NumMembers

\* All members answered and the last configured member settled first.
C11_Witness ==
    /\ fan.phase \notin {"idle", "stage1"}
    /\ fan.completion1[1] = NumMembers
    /\ \A i \in Members : fan.stage1_results[i].status = "Ok"

\* C12: the aggregate ranking does not depend on the order of the rankings:
\* the aggregator gives the same result on every reordering of the Stage 2
\* rankings; the result lists every model of the label map once, by
\* descending score, equal scores in configured member order.
C12_AggregateOrderIndependent ==
    fan.phase = "done" =>
        LET agg == fan.aggregate_rankings
            l2m == LabelToModel(fan.stage1_results)
        IN  /\ fan.aggregate_shuffled = agg
            /\ Len(agg) = Len(l2m)
            /\ \A i \in 1..Len(l2m) : \E k \in 1..Len(agg) :
                   /\ agg[k].model = l2m[i].model
                   /\ agg[k].score =
                          SumPoints(fan.shuffled, l2m[i].label, Len(fan.shuffled))
            /\ \A k \in 1..(Len(agg) - 1) :
                   \/ agg[k].score > agg[k + 1].score
                   \/ /\ agg[k].score = agg[k + 1].score
                      /\ MemberIndex(agg[k].model) < MemberIndex(agg[k + 1].model)

\* Two models tie and the reordering puts a different ranking first.
C12_Witness ==
    /\ fan.phase = "done"
    /\ fan.shuffled[1].status = "Ok"
    /\ fan.stage2_results[1].status = "Ok"
    /\ fan.shuffled[1].ordered_labels # fan.stage2_results[1].ordered_labels
    /\ \E k \in 1..(Len(fan.aggregate_rankings) - 1) :
           fan.aggregate_rankings[k].score = fan.aggregate_rankings[k + 1].score

====
